---- MODULE Spec2Model ----
(***************************************************************************)
(* A model of vidcat.py: the pipeline of main() (input check, ffprobe      *)
(* metadata, terminal dimensions, ffmpeg frame extraction, rendering,      *)
(* stream encoding with zstd, playback command) as a state machine, with   *)
(* the arithmetic of calculate_terminal_dimensions and                     *)
(* generate_playback_command computed in IEEE-754 binary64, as CPython's   *)
(* float does.  Four specifications share the variables:                   *)
(*   Spec          one run of main()                                       *)
(*   SpecDims      calls of VideoProcessor.calculate_terminal_dimensions   *)
(*   SpecExtract   the generator VideoProcessor.extract_frames             *)
(*   SpecPlayback  calls of generate_playback_command                      *)
(***************************************************************************)
EXTENDS Integers, Sequences, FiniteSets, TLC

VARIABLES
    pc,                  \* where the run (or the harness) stands
    args,                \* argparse namespace: video, width, output
    processor,           \* the VideoProcessor object's fields
    metadata,            \* dict returned by get_video_metadata
    fs,                  \* files: scratch directory, <output>.ansi.tmp, output artifact
    frame_files,         \* extract_frames: sorted(output_dir.glob("frame_*.png"))
    all_frame_data,      \* main: the rendered frame blocks, in order
    stats,               \* dict returned by compress_frames_to_file
    ret,                 \* last value returned (or exception raised) by the call under study
    exc,                 \* the exception propagating, if any
    stderr,              \* messages written to sys.stderr
    exit_code,           \* the process's exit status
    history              \* stages started, external tools run, steps that failed

vars == <<pc, args, processor, metadata, fs, frame_files, all_frame_data, stats,
          ret, exc, stderr, exit_code, history>>

(***************************************************************************)
(* Bounds of the model.                                                    *)
(***************************************************************************)
MaxDim == 3
MaxColumns == 4
MaxCalls == 2
MaxFrames == 2
MaxTracked == 3

\* Optional values: None is the empty tuple, a value v is <<v>>.
None == <<>>
Some(v) == <<v>>
Val(o) == o[1]
Max(a, b) == IF a >= b THEN a ELSE b

(***************************************************************************)
(* CPython float: IEEE-754 binary64, round-to-nearest-even.  A float is    *)
(* zero or mant * 2^exp with 2^52 <= mant < 2^53; mant is held in four     *)
(* 27-bit limbs, least significant first.  Subnormals, infinities and NaN  *)
(* are out of reach of the integers the model feeds in.                    *)
(***************************************************************************)
LimbBits == 27
LimbBase == 134217728
MantBits == 53

RECURSIVE Pow2(_)
Pow2(k) == IF k = 0 THEN 1 ELSE 2 * Pow2(k - 1)

BigZero == <<0, 0, 0, 0>>
BigOfInt(n) == <<n % LimbBase, n \div LimbBase, 0, 0>>
BigIsZero(x) == x = BigZero
BigBit(x, i) ==
    IF i < 0 \/ i >= 4 * LimbBits THEN 0
    ELSE (x[(i \div LimbBits) + 1] \div Pow2(i % LimbBits)) % 2

BigGe(x, y) ==
    IF x[4] # y[4] THEN x[4] > y[4]
    ELSE IF x[3] # y[3] THEN x[3] > y[3]
    ELSE IF x[2] # y[2] THEN x[2] > y[2]
    ELSE x[1] >= y[1]

BigAddC(x, y, c0) ==
    LET s1 == x[1] + y[1] + c0
        s2 == x[2] + y[2] + (s1 \div LimbBase)
        s3 == x[3] + y[3] + (s2 \div LimbBase)
        s4 == x[4] + y[4] + (s3 \div LimbBase)
    IN  <<s1 % LimbBase, s2 % LimbBase, s3 % LimbBase, s4 % LimbBase>>
BigAdd(x, y) == BigAddC(x, y, 0)
BigShl1(x) == BigAddC(x, x, 0)
BigInc(x) == BigAddC(x, BigZero, 1)
BigSub(x, y) ==
    BigAddC(x, <<LimbBase - 1 - y[1], LimbBase - 1 - y[2],
                 LimbBase - 1 - y[3], LimbBase - 1 - y[4]>>, 1)

RECURSIVE BitsValue(_, _, _)
BitsValue(x, from, n) ==
    IF n = 0 THEN 0 ELSE 2 * BitsValue(x, from + 1, n - 1) + BigBit(x, from)
BigShr(x, s) ==
    <<BitsValue(x, s, LimbBits), BitsValue(x, s + LimbBits, LimbBits),
      BitsValue(x, s + 2 * LimbBits, LimbBits), BitsValue(x, s + 3 * LimbBits, LimbBits)>>

FZero == [mant |-> BigZero, exp |-> 0]
FIsZero(f) == BigIsZero(f.mant)

RECURSIVE FNormalize(_)
FNormalize(f) ==
    IF BigBit(f.mant, MantBits - 1) = 1 THEN f
    ELSE FNormalize([mant |-> BigShl1(f.mant), exp |-> f.exp - 1])
FloatOfInt(n) == IF n = 0 THEN FZero ELSE FNormalize([mant |-> BigOfInt(n), exp |-> 0])

FRound(m, e, guard, sticky) ==
    IF guard = 1 /\ (sticky \/ BigBit(m, 0) = 1)
    THEN LET m1 == BigInc(m)
         IN  IF BigBit(m1, MantBits) = 1
             THEN [mant |-> BigShr(m1, 1), exp |-> e + 1]
             ELSE [mant |-> m1, exp |-> e]
    ELSE [mant |-> m, exp |-> e]

DivStep(st, d) ==
    LET bit == BigGe(st.r, d)
        r1 == IF bit THEN BigSub(st.r, d) ELSE st.r
    IN  [r |-> BigShl1(r1), q |-> BigAddC(st.q, st.q, IF bit THEN 1 ELSE 0), n |-> st.n + 1]

RECURSIVE DivLoop(_, _)
DivLoop(st, d) ==
    IF st.n = MantBits
    THEN [q |-> st.q, guard |-> IF BigGe(st.r, d) THEN 1 ELSE 0,
          sticky |-> st.r # d /\ ~BigIsZero(st.r)]
    ELSE DivLoop(DivStep(st, d), d)

FDiv(x, y) ==
    IF FIsZero(x) THEN FZero
    ELSE LET ge == BigGe(x.mant, y.mant)
             res == DivLoop([r |-> IF ge THEN x.mant ELSE BigShl1(x.mant), q |-> BigZero, n |-> 0],
                            y.mant)
         IN  FRound(res.q, x.exp - y.exp - (IF ge THEN 52 ELSE 53), res.guard, res.sticky)

RECURSIVE MulLoop(_, _, _)
MulLoop(x, y, st) ==
    IF st.i < 0 THEN st.p
    ELSE LET p2 == BigShl1(st.p)
         IN  MulLoop(x, y, [p |-> IF BigBit(y, st.i) = 1 THEN BigAdd(p2, x) ELSE p2,
                            i |-> st.i - 1])

FMul(x, y) ==
    IF FIsZero(x) \/ FIsZero(y) THEN FZero
    ELSE LET p == MulLoop(x.mant, y.mant, [p |-> BigZero, i |-> MantBits - 1])
             s == IF BigBit(p, 2 * MantBits - 1) = 1 THEN MantBits ELSE MantBits - 1
         IN  FRound(BigShr(p, s), x.exp + y.exp + s, BigBit(p, s - 1),
                    \E j \in 0..(s - 2) : BigBit(p, j) = 1)

FTrunc(f) ==
    IF FIsZero(f) \/ -f.exp >= MantBits THEN 0
    ELSE BitsValue(f.mant, -f.exp, MantBits + f.exp)

\* x <= y for floats that are zero or positive
FLe(x, y) ==
    IF FIsZero(x) THEN TRUE
    ELSE IF FIsZero(y) THEN FALSE
    ELSE IF x.exp # y.exp THEN x.exp < y.exp
    ELSE BigGe(y.mant, x.mant)

(***************************************************************************)
(* class VideoProcessor                                                    *)
(***************************************************************************)
\* __init__: every field but the path and the requested width starts as None
VideoProcessor(video_path, terminal_width) ==
    [video_path |-> video_path, terminal_width |-> terminal_width,
     fps |-> None, width |-> None, height |-> None,
     frame_count |-> None, terminal_height |-> None]

\* Python's "not x" for an Optional[int]: None and 0 are falsy
Falsy(o) == o = None \/ Val(o) = 0

\* aspect_ratio = self.width / self.height
aspect_ratio(self) == FDiv(FloatOfInt(Val(self.width)), FloatOfInt(Val(self.height)))

\* int(self.terminal_width / aspect_ratio / 2)
RawRows(self) ==
    FTrunc(FDiv(FDiv(FloatOfInt(self.terminal_width), aspect_ratio(self)), FloatOfInt(2)))

\* variant: the odd row count is kept
EvenRows_Skipped(h) == h

\* if self.terminal_height % 2: self.terminal_height -= 1
EvenRows(h) == IF h % 2 = 1 THEN h - 1 ELSE h

\* self.terminal_height = max(2, self.terminal_height)
ClampRows(h) == Max(2, h)

\* variant: the call also halves the stored terminal_width
calculate_terminal_dimensions_Halving(self) ==
    IF Falsy(self.width) \/ Falsy(self.height)
    THEN [raised |-> Some("ValueError"), self |-> self, value |-> None]
    ELSE LET h == ClampRows(EvenRows(RawRows(self)))
         IN  [raised |-> None,
              self |-> [self EXCEPT !.terminal_height = Some(h),
                                    !.terminal_width = Max(1, self.terminal_width \div 2)],
              value |-> Some(<<self.terminal_width, h>>)]

\* the call's outcome: the exception raised (or None), the object afterwards, the value returned
calculate_terminal_dimensions(self) ==
    IF Falsy(self.width) \/ Falsy(self.height)
    THEN [raised |-> Some("ValueError"), self |-> self, value |-> None]
    ELSE LET h == ClampRows(EvenRows(RawRows(self)))
         IN  [raised |-> None,
              self |-> [self EXCEPT !.terminal_height = Some(h)],
              value |-> Some(<<self.terminal_width, h>>)]

(***************************************************************************)
(* SpecDims: calculate_terminal_dimensions called on a VideoProcessor whose *)
(* metadata is set (or, once, not set), up to MaxCalls times in a row.     *)
(***************************************************************************)
\* source sizes in pixels: all small ones and some real ones (1080p, CIF, QCIF, VGA, portrait)
SourceSizes ==
    ((1..MaxDim) \X (1..MaxDim))
        \cup {<<1920, 1080>>, <<352, 288>>, <<176, 144>>, <<640, 480>>, <<1080, 1920>>,
              <<9, 14>>}
\* requested terminal widths: all small ones, the default 80 and 132 columns
Columns == (1..MaxColumns) \cup {18, 80, 132}

Idle ==
    /\ args = None
    /\ metadata = None
    /\ fs = [scratch |-> None, temp |-> None, output |-> None]
    /\ frame_files = <<>>
    /\ all_frame_data = <<>>
    /\ stats = None
    /\ ret = None
    /\ exc = None
    /\ stderr = <<>>
    /\ exit_code = None
    /\ history = <<>>

InitDims ==
    /\ pc = "harness"
    /\ \E c \in Columns :
          \/ processor = VideoProcessor("video.mp4", c)
          \/ \E s \in SourceSizes :
                processor = [VideoProcessor("video.mp4", c) EXCEPT
                                !.width = Some(s[1]), !.height = Some(s[2])]
    /\ Idle

CallCalculate ==
    /\ pc = "harness"
    /\ Len(history) < MaxCalls
    /\ LET r == calculate_terminal_dimensions(processor)
       IN  /\ processor' = r.self
           /\ ret' = Some([raised |-> r.raised, value |-> r.value])
    /\ history' = Append(history, "calculate_terminal_dimensions")
    /\ UNCHANGED <<pc, args, metadata, fs, frame_files, all_frame_data, stats, exc,
                   stderr, exit_code>>

NextDims == CallCalculate
SpecDims == InitDims /\ [][NextDims]_vars

\* the call under study has returned normally
Returned == ret # None /\ Val(ret).raised = None
ReturnedPair == Val(Val(ret).value)
HasSize == ~Falsy(processor.width) /\ ~Falsy(processor.height)

\* C1: for W, H, C > 0 the call returns, and the row count it returns (and stores) is
\* even and at least 2
C1_RowsEvenAtLeastTwo ==
    (pc = "harness" /\ ret # None /\ HasSize) =>
        /\ Returned
        /\ ReturnedPair[2] % 2 = 0
        /\ ReturnedPair[2] >= 2
        /\ processor.terminal_height = Some(ReturnedPair[2])

\* C1 witness: 9x14 at 18 columns, where the truncated quotient 13 is odd and becomes 12,
\* and a 3x1 source at 1 column, where the quotient 0 is raised to 2
C1_Witness ==
    /\ Returned
    /\ \/ processor.width = Some(9) /\ processor.height = Some(14)
          /\ ReturnedPair = <<18, 12>>
       \/ processor.width = Some(3) /\ processor.height = Some(1)
          /\ ReturnedPair = <<1, 2>>

\* the row count of the contract, in exact arithmetic: floor(C / (W/H) / 2) = floor(C*H / 2W),
\* minus 1 if odd, then raised to 2
ExactRows(w, h, c) ==
    LET r == (c * h) \div (2 * w)
        e == IF r % 2 = 1 THEN r - 1 ELSE r
    IN  IF e < 2 THEN 2 ELSE e

\* C2: the call returns (C, r), r = floor(C / (W/H) / 2) made even, then raised to 2;
\* for 1920x1080 at 80 columns that is (80, 22)
C2_RowsFollowFormula ==
    (pc = "harness" /\ ret # None /\ HasSize) =>
        /\ Returned
        /\ ReturnedPair = <<processor.terminal_width,
                            ExactRows(Val(processor.width), Val(processor.height),
                                      processor.terminal_width)>>

\* the part of C2 the code does meet: the worked example of the contract
C2_Example1080p ==
    (Returned /\ processor.width = Some(1920) /\ processor.height = Some(1080)
        /\ processor.terminal_width = 80) => ReturnedPair = <<80, 22>>

\* C8 as stated: the call leaves the VideoProcessor (and everything else) unchanged
C8_NoSideEffects ==
    [][pc = "harness" =>
        /\ processor' = processor
        /\ UNCHANGED <<args, metadata, fs, frame_files, all_frame_data, stats, exc,
                       stderr, exit_code>>]_vars

\* C8 amended: the pair returned depends only on width, height and column count (a second
\* call returns what the first did), and the call's one side effect is to store the row
\* count in the terminal_height field; every other field and variable is left alone
C8_DeterministicStoresRows ==
    [][pc = "harness" =>
        /\ Val(ret').raised = None =>
              /\ processor' = [processor EXCEPT
                                  !.terminal_height = Some(Val(Val(ret').value)[2])]
              /\ Val(Val(ret').value)[1] = processor.terminal_width
        /\ Val(ret').raised # None => processor' = processor
        /\ ret # None => ret' = ret
        /\ UNCHANGED <<args, metadata, fs, frame_files, all_frame_data, stats, exc,
                       stderr, exit_code>>]_vars

\* C8 witness: two calls made, the row count 22 stored by the first and kept by the second
C8_Witness ==
    /\ Len(history) = 2
    /\ Returned
    /\ ReturnedPair = <<80, 22>>
    /\ processor.terminal_height = Some(22)

(***************************************************************************)
(* Text.  A str is the sequence of its Unicode code points; a path is the  *)
(* str of its name (every path of one run shares its directory).           *)
(***************************************************************************)
RECURSIVE Digits(_)
\* str(n) for n >= 0, as the "%d" and "{}" conversions write it
Digits(n) == IF n < 10 THEN <<48 + n>> ELSE Digits(n \div 10) \o <<48 + (n % 10)>>

RECURSIVE ZeroPad(_, _)
\* the "0<w>" flag: zeros on the left up to a width of at least w
ZeroPad(s, w) == IF Len(s) >= w THEN s ELSE ZeroPad(<<48>> \o s, w)

FrameNumberWidth == 6

\* "frame_%06d.png" % i
FrameName(i) ==
    <<102, 114, 97, 109, 101, 95>> \o ZeroPad(Digits(i), FrameNumberWidth)
        \o <<46, 112, 110, 103>>

RECURSIVE ParseInt(_)
ParseInt(s) == IF s = <<>> THEN 0 ELSE 10 * ParseInt(SubSeq(s, 1, Len(s) - 1)) + (s[Len(s)] - 48)

\* the frame number a frame file's name carries
FrameIndex(name) == ParseInt(SubSeq(name, 7, Len(name) - 4))

RECURSIVE StrLess(_, _)
\* a < b for str (and so for paths of one directory): code point by code point
StrLess(a, b) ==
    IF b = <<>> THEN FALSE
    ELSE IF a = <<>> THEN TRUE
    ELSE IF a[1] # b[1] THEN a[1] < b[1]
    ELSE StrLess(Tail(a), Tail(b))

RECURSIVE InsertSorted(_, _)
InsertSorted(p, s) ==
    IF s = <<>> THEN <<p>>
    ELSE IF StrLess(p, s[1]) THEN <<p>> \o s
    ELSE <<s[1]>> \o InsertSorted(p, Tail(s))

RECURSIVE sorted(_)
\* sorted(list of paths)
sorted(l) == IF l = <<>> THEN <<>> ELSE InsertSorted(l[1], sorted(Tail(l)))

\* the orders in which glob may enumerate a directory holding the files S
Enumerations(S) ==
    {e \in [1..Cardinality(S) -> S] : \A i, j \in 1..Cardinality(S) : e[i] = e[j] => i = j}

(***************************************************************************)
(* extract_frames.  ffmpeg writes frame_000001.png .. frame_<n>.png.  For  *)
(* a video of more than MaxTracked frames the model keeps, of the scratch  *)
(* directory, only MaxTracked or fewer of the files (around the first      *)
(* frames and around frame 10^FrameNumberWidth): sorting a subset of the   *)
(* directory orders its files as sorting the whole directory does.         *)
(***************************************************************************)
Landmarks == {1, 2, 10, 100001, 999999, 1000000, 1000001}
LongVideos == {999999, 1000000, 1000001}

TrackedFrames(n) ==
    IF n <= MaxTracked THEN {1..n}
    ELSE {t \in SUBSET {i \in Landmarks : i <= n} : Cardinality(t) <= MaxTracked}

\* frame_files = sorted(output_dir.glob("frame_*.png")), glob having enumerated enum
extract_frames_sorted(enum) == sorted(enum)

\* scale={}:{} as extract_frames formats it: width x (terminal_height * 2)
ScaleFilter(self) == <<self.terminal_width, Val(self.terminal_height) * 2>>

(***************************************************************************)
(* SpecExtract: the generator extract_frames run on a fresh scratch        *)
(* directory: the first next() runs ffmpeg and lists the directory, each   *)
(* next() yields one path.                                                 *)
(***************************************************************************)
InitExtract ==
    /\ pc = "harness"
    /\ processor = [VideoProcessor("video.mp4", 80) EXCEPT
                       !.width = Some(1920), !.height = Some(1080),
                       !.terminal_height = Some(22)]
    /\ args = None
    /\ metadata = None
    /\ fs = [scratch |-> Some({}), temp |-> None, output |-> None]
    /\ frame_files = <<>>
    /\ all_frame_data = <<>>
    /\ stats = None
    /\ ret = None
    /\ exc = None
    /\ stderr = <<>>
    /\ exit_code = None
    /\ history = <<>>

\* the first next(): ffmpeg decodes n frames, the directory is listed and sorted
StartExtract ==
    /\ pc = "harness"
    /\ history = <<>>
    /\ \E n \in (0..MaxFrames) \cup LongVideos :
        \E t \in TrackedFrames(n) :
          \E enum \in Enumerations({FrameName(i) : i \in t}) :
            /\ fs' = [fs EXCEPT !.scratch = Some({FrameName(i) : i \in t})]
            /\ frame_files' = extract_frames_sorted(enum)
            /\ history' = <<<<"ffmpeg", ScaleFilter(processor), n>>>>
    /\ ret' = Some([raised |-> None, value |-> Some(<<>>)])
    /\ UNCHANGED <<pc, args, processor, metadata, all_frame_data, stats, exc, stderr,
                   exit_code>>

\* the first next() when ffmpeg exits non-zero: RuntimeError, nothing is yielded
StartExtractFails ==
    /\ pc = "harness"
    /\ history = <<>>
    /\ history' = <<<<"ffmpeg", ScaleFilter(processor), 0>>>>
    /\ ret' = Some([raised |-> Some("RuntimeError"), value |-> None])
    /\ UNCHANGED <<pc, args, processor, metadata, fs, frame_files, all_frame_data, stats,
                   exc, stderr, exit_code>>

\* a next() that yields the next path of frame_files
YieldFrame ==
    /\ pc = "harness"
    /\ ret # None /\ Val(ret).raised = None
    /\ LET yielded == Val(Val(ret).value)
       IN  /\ Len(yielded) < Len(frame_files)
           /\ ret' = Some([raised |-> None,
                           value |-> Some(Append(yielded, frame_files[Len(yielded) + 1]))])
    /\ UNCHANGED <<pc, args, processor, metadata, fs, frame_files, all_frame_data, stats,
                   exc, stderr, exit_code, history>>

NextExtract == StartExtract \/ StartExtractFails \/ YieldFrame
SpecExtract == InitExtract /\ [][NextExtract]_vars

Yielded == IF ret # None /\ Val(ret).raised = None THEN Val(Val(ret).value) ELSE <<>>

\* C6: the paths are yielded in strictly increasing frame number, whatever the number of
\* frames and the order in which the directory is enumerated
C6_YieldsInFrameOrder ==
    pc = "harness" =>
        \A i, j \in 1..Len(Yielded) :
            i < j => FrameIndex(Yielded[i]) < FrameIndex(Yielded[j])

\* what the code does meet: the order holds while every frame number has at most
\* FrameNumberWidth digits
C6_InOrderUpToSixDigits ==
    (pc = "harness" /\ history # <<>> /\ history[1][3] < 1000000) =>
        \A i, j \in 1..Len(Yielded) :
            i < j => FrameIndex(Yielded[i]) < FrameIndex(Yielded[j])

(***************************************************************************)
(* ANSIFrameGenerator.frame_to_ansi, compress_frames_to_file (its writes   *)
(* and its statistics) and generate_playback_command.                      *)
(***************************************************************************)
ESC == 27
Newline == 10

\* what rich prints for one image is the library's business: two sample texts,
\* "▀\n" (a half block, three bytes in UTF-8) and "\033[0m\n"
RenderedTexts == {<<9600, 10>>, <<27, 91, 48, 109, 10>>}

\* frame_data = f"\033[{self.terminal_height}A" + ansi_output
frame_to_ansi(terminal_height, ansi_output) ==
    <<ESC, 91>> \o Digits(terminal_height) \o <<65>> \o ansi_output

\* "\033[?25l" and "\033[?25h"
HideCursor == <<ESC, 91, 63, 50, 53, 108>>
ShowCursor == <<ESC, 91, 63, 50, 53, 104>>

RECURSIVE Repeat(_, _)
\* s * n
Repeat(s, n) == IF n <= 0 THEN <<>> ELSE s \o Repeat(s, n - 1)

\* variant: the cursor-show code is written before the frames
StreamWrites_ShowFirst(frame_data_list, terminal_height) ==
    <<Repeat(<<Newline>>, terminal_height), HideCursor, ShowCursor>> \o frame_data_list

\* the arguments of the f.write calls of compress_frames_to_file, in the order made
StreamWrites(frame_data_list, terminal_height) ==
    <<Repeat(<<Newline>>, terminal_height), HideCursor>> \o frame_data_list
        \o <<ShowCursor>>

RECURSIVE WriteAll(_, _, _)
\* the file's content after the first k writes, each appending to what is there
WriteAll(content, writes, k) ==
    IF k = 0 THEN content
    ELSE WriteAll(content, writes, k - 1) \o writes[k]

\* len(ch.encode("utf-8")) of one code point
Utf8Bytes(cp) == IF cp < 128 THEN 1 ELSE IF cp < 2048 THEN 2 ELSE IF cp < 65536 THEN 3 ELSE 4

RECURSIVE Utf8Len(_)
\* len(frame_data.encode("utf-8"))
Utf8Len(str) == IF str = <<>> THEN 0 ELSE Utf8Bytes(str[1]) + Utf8Len(Tail(str))

RECURSIVE Sum(_)
Sum(l) == IF l = <<>> THEN 0 ELSE l[1] + Sum(Tail(l))

\* the dict compress_frames_to_file returns; avg_frame_size is a float, or the int 0
\* (held as the float zero) for no frames
CompressionStats(frame_sizes) ==
    [frame_sizes |-> frame_sizes,
     total_frames |-> Len(frame_sizes),
     avg_frame_size |-> IF frame_sizes # <<>>
                        THEN FDiv(FloatOfInt(Sum(frame_sizes)), FloatOfInt(Len(frame_sizes)))
                        ELSE FZero]

FrameSizes(frame_data_list) == [i \in 1..Len(frame_data_list) |-> Utf8Len(frame_data_list[i])]

\* fps = float(fps_parts[0]) / float(fps_parts[1]), for "num/den" with den # 0
ParseFps(num, den) == FDiv(FloatOfInt(num), FloatOfInt(den))

\* round(x) for a float x >= 0: to the nearest integer, halves to the even one
FRoundToInt(f) ==
    LET t == FTrunc(f)
        twice == IF FIsZero(f) THEN f ELSE [f EXCEPT !.exp = f.exp + 1]
        frac2 == FTrunc(twice) - 2 * t      \* 1 iff the fraction is at least 1/2
        half == frac2 = 1 /\ FloatOfInt(2 * t + 1) = twice
    IN  IF frac2 = 0 THEN t
        ELSE IF half /\ t % 2 = 0 THEN t
        ELSE t + 1

\* variant: round() in place of int()
bytes_per_second_Rounded(avg_frame_size, fps) == FRoundToInt(FMul(avg_frame_size, fps))

\* bytes_per_second = int(avg_frame_size * fps)
bytes_per_second(avg_frame_size, fps) == FTrunc(FMul(avg_frame_size, fps))

\* the command string, as its parts: f"cat {output_path} | zstd -d | pv -q -L {bytes_per_second}"
generate_playback_command(output_path, fps, avg_frame_size) ==
    <<"cat ", output_path, " | zstd -d | pv -q -L ", bytes_per_second(avg_frame_size, fps)>>

(***************************************************************************)
(* SpecPlayback: generate_playback_command called with the frame rate of   *)
(* a probed stream and the average of the sizes of up to MaxFrames frames. *)
(***************************************************************************)
\* r_frame_rate values: 30, 25, 15, 60 fps, NTSC film and video, and 3/2
FrameRates == {<<30, 1>>, <<25, 1>>, <<15, 1>>, <<60, 1>>, <<24000, 1001>>,
               <<30000, 1001>>, <<3, 2>>}
\* frame sizes in bytes: the shortest block "\033[2A" and longer ones
SampleSizes == {4, 7, 41, 100}

SizeLists == UNION {[1..n -> SampleSizes] : n \in 0..MaxFrames}

InitPlayback ==
    /\ pc = "harness"
    /\ processor = VideoProcessor("video.mp4", 80)
    /\ args = Some([video |-> "video.mp4", width |-> 80, output |-> "video.zst"])
    /\ \E r \in FrameRates :
          metadata = Some([fps |-> ParseFps(r[1], r[2]), width |-> 1920, height |-> 1080,
                           frame_count |-> 0])
    /\ \E l \in SizeLists : stats = Some(CompressionStats(l))
    /\ fs = [scratch |-> None, temp |-> None, output |-> None]
    /\ frame_files = <<>>
    /\ all_frame_data = <<>>
    /\ ret = None
    /\ exc = None
    /\ stderr = <<>>
    /\ exit_code = None
    /\ history = <<>>

CallGeneratePlayback ==
    /\ pc = "harness"
    /\ Len(history) < MaxCalls
    /\ ret' = Some([raised |-> None,
                    value |-> Some(generate_playback_command(
                                 Val(args).output, Val(metadata).fps,
                                 Val(stats).avg_frame_size))])
    /\ history' = Append(history, "generate_playback_command")
    /\ UNCHANGED <<pc, args, processor, metadata, fs, frame_files, all_frame_data, stats,
                   exc, stderr, exit_code>>

NextPlayback == CallGeneratePlayback
SpecPlayback == InitPlayback /\ [][NextPlayback]_vars

\* the rate limit of the command returned, and the product it is computed from
PlaybackRate == Val(Val(ret).value)[4]
PlaybackProduct == FMul(Val(stats).avg_frame_size, Val(metadata).fps)
FTwice(f) == IF FIsZero(f) THEN f ELSE [f EXCEPT !.exp = f.exp + 1]

\* C7 as stated: the rate limit is avg_frame_size * frame_rate rounded to the nearest
\* integer: it differs from the product by at most 1/2
C7_RateIsRounded ==
    (pc = "harness" /\ ret # None /\ stats # None) =>
        /\ PlaybackRate = 0 \/ FLe(FloatOfInt(2 * PlaybackRate - 1), FTwice(PlaybackProduct))
        /\ FLe(FTwice(PlaybackProduct), FloatOfInt(2 * PlaybackRate + 1))

\* C7 amended: the rate limit is the product truncated to an integer: the largest integer
\* that is at most avg_frame_size * frame_rate
C7_RateIsTruncated ==
    (pc = "harness" /\ ret # None /\ stats # None) =>
        /\ FLe(FloatOfInt(PlaybackRate), PlaybackProduct)
        /\ ~FLe(FloatOfInt(PlaybackRate + 1), PlaybackProduct)
        /\ Val(Val(ret).value)[2] = Val(args).output

\* C7 witness: one frame of 100 bytes at 24000/1001 fps: the product 2397.60... gives 2397
C7_Witness ==
    /\ pc = "harness" /\ ret # None /\ stats # None
    /\ Val(stats).frame_sizes = <<100>>
    /\ Val(metadata).fps = ParseFps(24000, 1001)
    /\ PlaybackRate = 2397

(***************************************************************************)
(* get_video_metadata.  What ffprobe answers is the environment's choice.  *)
(***************************************************************************)
\* a decimal string such as "10.5" is [digits |-> 105, scale |-> 10]; float() of it is
\* the float nearest to digits / scale
ParseDecimal(d) == FDiv(FloatOfInt(d.digits), FloatOfInt(d.scale))

\* the first video stream of ffprobe's JSON, with format.duration
ProbedStreams ==
    {[width |-> 1920, height |-> 1080, rate |-> <<30, 1>>, nb_frames |-> Some(10),
      duration |-> [digits |-> 333, scale |-> 1000]],
     [width |-> 352, height |-> 288, rate |-> <<24000, 1001>>, nb_frames |-> None,
      duration |-> [digits |-> 105, scale |-> 10]],
     [width |-> 0, height |-> 0, rate |-> <<25, 1>>, nb_frames |-> Some(0),
      duration |-> [digits |-> 0, scale |-> 1]],
     [width |-> 640, height |-> 480, rate |-> <<0, 0>>, nb_frames |-> Some(1),
      duration |-> [digits |-> 1, scale |-> 1]]}

\* ffprobe exits non-zero; its output is not JSON; the JSON holds no video stream;
\* or it holds one
ProbeResults ==
    {[kind |-> "CalledProcessError"], [kind |-> "JSONDecodeError"],
     [kind |-> "no_video_stream"]}
        \cup {[kind |-> "ok", stream |-> st] : st \in ProbedStreams}

get_video_metadata(self, probe) ==
    IF probe.kind \in {"CalledProcessError", "JSONDecodeError"}
    THEN [raised |-> Some("RuntimeError"), self |-> self, value |-> None]
    ELSE IF probe.kind = "no_video_stream"
    THEN [raised |-> Some("ValueError"), self |-> self, value |-> None]
    ELSE LET st == probe.stream
             sized == [self EXCEPT !.width = Some(st.width), !.height = Some(st.height)]
         IN  IF st.rate[2] = 0
             THEN [raised |-> Some("ZeroDivisionError"), self |-> sized, value |-> None]
             ELSE LET fps == ParseFps(st.rate[1], st.rate[2])
                      count == IF st.nb_frames # None THEN Val(st.nb_frames)
                               ELSE FTrunc(FMul(ParseDecimal(st.duration), fps))
                  IN  [raised |-> None,
                       self |-> [sized EXCEPT !.fps = Some(fps),
                                              !.frame_count = Some(count)],
                       value |-> Some([fps |-> fps, width |-> st.width,
                                       height |-> st.height, frame_count |-> count])]

(***************************************************************************)
(* main().  One action per step; an exception travels, one step at a time, *)
(* through the enclosing "with" or "finally" to main's "except Exception". *)
(***************************************************************************)
VideoArgs == {"video.mp4", "missing.mp4", "."}
ExistingPaths == {"video.mp4", "."}
\* Path(p).name == "", for which with_suffix raises ValueError
EmptyName(p) == p = "."
MainColumns == {80, 132}

Log(kind, name) == <<kind, name>>
Logged(kind, name) == \E i \in 1..Len(history) : history[i] = <<kind, name>>
Failed == \E i \in 1..Len(history) : history[i][1] = "fail"

Init ==
    /\ pc = "start"
    /\ \E v \in VideoArgs, w \in MainColumns, o \in {None, Some("out.zst")} :
          args = Some([video |-> v, width |-> w, output |-> o])
    /\ processor = None
    /\ metadata = None
    /\ fs = [scratch |-> None, temp |-> None, output |-> None]
    /\ frame_files = <<>>
    /\ all_frame_data = <<>>
    /\ stats = None
    /\ ret = None
    /\ exc = None
    /\ stderr = <<>>
    /\ exit_code = None
    /\ history = <<>>

\* variant: a frame that fails to render does not stop the run
RaiseIn_RenderCarriesOn(stage) ==
    IF stage = "extract" THEN "tempdir_exit"
    ELSE IF stage = "render" THEN "compress"
    ELSE IF stage = "compress" THEN "finally"
    ELSE "except"

\* where an exception raised in a stage is handled next: the "with" block of the scratch
\* directory, the "finally" of compress_frames_to_file, or main's "except Exception"
RaiseIn(stage) ==
    IF stage \in {"extract", "render"} THEN "tempdir_exit"
    ELSE IF stage = "compress" THEN "finally"
    ELSE "except"

\* variant: the handler reports the error and exits with status 0
main_except_ExitsZero(e, err) ==
    [stderr |-> Append(err, <<"Error: ", e>>), exit_code |-> Some(0)]

\* except Exception as e: print(f"Error: {e}", file=sys.stderr); sys.exit(1)
main_except(e, err) ==
    [stderr |-> Append(err, <<"Error: ", e>>), exit_code |-> Some(1)]

\* variant: the directory is removed only when the block ends normally
TemporaryDirectoryExit_KeptOnError(f, raising) ==
    IF raising THEN f ELSE [f EXCEPT !.scratch = None]

\* leaving "with tempfile.TemporaryDirectory()": the directory and its files are removed
TemporaryDirectoryExit(f, raising) == [f EXCEPT !.scratch = None]

\* variant: the unlink sits after the try block, not in a finally
FinallyCleanup_OnSuccessOnly(f, raising) ==
    IF f.temp # None /\ ~raising THEN [f EXCEPT !.temp = None] ELSE f

\* finally: if temp_file.exists(): temp_file.unlink()
FinallyCleanup(f, raising) == IF f.temp # None THEN [f EXCEPT !.temp = None] ELSE f

\* if not args.video.exists(): message, sys.exit(1)
InputMissing ==
    /\ pc = "start"
    /\ Val(args).video \notin ExistingPaths
    /\ stderr' = Append(stderr, <<"Error: Video file not found: ", Val(args).video>>)
    /\ exit_code' = Some(1)
    /\ pc' = "exit"
    /\ history' = history \o <<Log("stage", "input"), Log("fail", "input")>>
    /\ UNCHANGED <<args, processor, metadata, fs, frame_files, all_frame_data, stats, ret,
                   exc>>

\* args.output = args.video.with_suffix(".zst") outside the try block: a ValueError for
\* an empty name ends the interpreter with a traceback and status 1
DefaultOutputRaises ==
    /\ pc = "start"
    /\ Val(args).video \in ExistingPaths
    /\ Val(args).output = None /\ EmptyName(Val(args).video)
    /\ exc' = Some("ValueError")
    /\ stderr' = Append(stderr, <<"Traceback: ", "ValueError">>)
    /\ exit_code' = Some(1)
    /\ pc' = "exit"
    /\ history' = history \o <<Log("stage", "input"), Log("fail", "input")>>
    /\ UNCHANGED <<args, processor, metadata, fs, frame_files, all_frame_data, stats, ret>>

\* the input exists: the output path is settled and the VideoProcessor is built
InputOk ==
    /\ pc = "start"
    /\ Val(args).video \in ExistingPaths
    /\ ~(Val(args).output = None /\ EmptyName(Val(args).video))
    /\ args' = IF Val(args).output = None
               THEN Some([Val(args) EXCEPT !.output = Some("video.zst")])
               ELSE args
    /\ processor' = VideoProcessor(Val(args).video, Val(args).width)
    /\ pc' = "probe"
    /\ history' = history \o <<Log("stage", "input"), Log("ok", "input")>>
    /\ UNCHANGED <<metadata, fs, frame_files, all_frame_data, stats, ret, exc, stderr,
                   exit_code>>

\* metadata = processor.get_video_metadata(); ffprobe of a directory exits non-zero
Probe ==
    /\ pc = "probe"
    /\ \E probe \in ProbeResults :
          /\ EmptyName(Val(args).video) => probe.kind = "CalledProcessError"
          /\ LET r == get_video_metadata(processor, probe)
             IN  /\ processor' = r.self
                 /\ metadata' = r.value
                 /\ exc' = r.raised
                 /\ pc' = IF r.raised = None THEN "dims" ELSE RaiseIn("probe")
                 /\ history' = history \o <<Log("stage", "probe"), Log("tool", "ffprobe"),
                                            Log(IF r.raised = None THEN "ok" ELSE "fail",
                                                "probe")>>
    /\ UNCHANGED <<args, fs, frame_files, all_frame_data, stats, ret, stderr, exit_code>>

\* term_width, term_height = processor.calculate_terminal_dimensions()
CalcDims ==
    /\ pc = "dims"
    /\ LET r == calculate_terminal_dimensions(processor)
       IN  /\ processor' = r.self
           /\ ret' = Some([raised |-> r.raised, value |-> r.value])
           /\ exc' = r.raised
           /\ pc' = IF r.raised = None THEN "mkdtemp" ELSE RaiseIn("dims")
           /\ history' = history \o <<Log("stage", "dims"),
                                      Log(IF r.raised = None THEN "ok" ELSE "fail", "dims")>>
    /\ UNCHANGED <<args, metadata, fs, frame_files, all_frame_data, stats, stderr,
                   exit_code>>

\* with tempfile.TemporaryDirectory() as temp_dir: the directory is made, or mkdtemp raises
EnterTempDir ==
    /\ pc = "mkdtemp"
    /\ \/ /\ fs' = [fs EXCEPT !.scratch = Some({})]
          /\ pc' = "extract"
          /\ UNCHANGED <<exc, history>>
       \/ /\ exc' = Some("OSError")
          /\ pc' = RaiseIn("mkdtemp")
          /\ history' = Append(history, Log("fail", "mkdtemp"))
          /\ UNCHANGED fs
    /\ UNCHANGED <<args, processor, metadata, frame_files, all_frame_data, stats, ret,
                   stderr, exit_code>>

\* the for loop's first next(): ffmpeg writes n frames, the directory is listed and sorted
Extract ==
    /\ pc = "extract"
    /\ \E n \in 0..MaxFrames :
        \E t \in TrackedFrames(n) :
          \E enum \in Enumerations({FrameName(i) : i \in t}) :
            /\ fs' = [fs EXCEPT !.scratch = Some({FrameName(i) : i \in t})]
            /\ frame_files' = extract_frames_sorted(enum)
    /\ pc' = "render"
    /\ history' = history \o <<Log("stage", "extract"), Log("tool", "ffmpeg"),
                               Log("ok", "extract")>>
    /\ UNCHANGED <<args, processor, metadata, all_frame_data, stats, ret, exc, stderr,
                   exit_code>>

\* ffmpeg exits non-zero, having written the first n frames: RuntimeError
ExtractFails ==
    /\ pc = "extract"
    /\ \E n \in 0..MaxFrames :
          fs' = [fs EXCEPT !.scratch = Some({FrameName(i) : i \in 1..n})]
    /\ exc' = Some("RuntimeError")
    /\ pc' = RaiseIn("extract")
    /\ history' = history \o <<Log("stage", "extract"), Log("tool", "ffmpeg"),
                               Log("fail", "extract")>>
    /\ UNCHANGED <<args, processor, metadata, frame_files, all_frame_data, stats, ret,
                   stderr, exit_code>>

RenderStarted == IF Logged("stage", "render") THEN <<>> ELSE <<Log("stage", "render")>>

\* one pass of the loop: ansi_frame = ansi_gen.frame_to_ansi(frame_path); append
Render ==
    /\ pc = "render"
    /\ Len(all_frame_data) < Len(frame_files)
    /\ \E text \in RenderedTexts :
          all_frame_data' =
              Append(all_frame_data, frame_to_ansi(Val(Val(ret).value)[2], text))
    /\ history' = history \o RenderStarted
    /\ UNCHANGED <<pc, args, processor, metadata, fs, frame_files, stats, ret, exc, stderr,
                   exit_code>>

\* Image.open or the renderer raises on a frame
RenderFails ==
    /\ pc = "render"
    /\ Len(all_frame_data) < Len(frame_files)
    /\ exc' = Some("UnidentifiedImageError")
    /\ pc' = RaiseIn("render")
    /\ history' = history \o RenderStarted \o <<Log("fail", "render")>>
    /\ UNCHANGED <<args, processor, metadata, fs, frame_files, all_frame_data, stats, ret,
                   stderr, exit_code>>

\* the generator is exhausted: the with block ends and the scratch directory goes
LeaveTempDir ==
    /\ pc = "render"
    /\ Len(all_frame_data) = Len(frame_files)
    /\ fs' = TemporaryDirectoryExit(fs, FALSE)
    /\ pc' = "compress"
    /\ history' = Append(history, Log("ok", "render"))
    /\ UNCHANGED <<args, processor, metadata, frame_files, all_frame_data, stats, ret, exc,
                   stderr, exit_code>>

\* an exception leaves the with block: the scratch directory goes, the exception goes on
UnwindTempDir ==
    /\ pc = "tempdir_exit"
    /\ fs' = TemporaryDirectoryExit(fs, TRUE)
    /\ pc' = "except"
    /\ UNCHANGED <<args, processor, metadata, frame_files, all_frame_data, stats, ret, exc,
                   stderr, exit_code, history>>

\* compress_frames_to_file: open(temp_file, "w") creates the file, or raises
OpenTemp ==
    /\ pc = "compress"
    /\ \/ /\ fs' = [fs EXCEPT !.temp = Some(<<>>)]
          /\ pc' = "write"
          /\ history' = Append(history, Log("stage", "compress"))
          /\ UNCHANGED exc
       \/ /\ exc' = Some("OSError")
          /\ pc' = RaiseIn("compress")
          /\ history' = history \o <<Log("stage", "compress"), Log("fail", "compress")>>
          /\ UNCHANGED fs
    /\ UNCHANGED <<args, processor, metadata, frame_files, all_frame_data, stats, ret,
                   stderr, exit_code>>

\* the writes of the with block: all of them, or the first k before one raises
WriteStream ==
    /\ pc = "write"
    /\ LET writes == StreamWrites(all_frame_data, Val(Val(ret).value)[2])
       IN  \/ /\ fs' = [fs EXCEPT !.temp = Some(WriteAll(<<>>, writes, Len(writes)))]
              /\ pc' = "zstd"
              /\ UNCHANGED <<exc, history>>
           \/ \E k \in 0..(Len(writes) - 1) :
                /\ fs' = [fs EXCEPT !.temp = Some(WriteAll(<<>>, writes, k))]
                /\ exc' = Some("OSError")
                /\ pc' = RaiseIn("compress")
                /\ history' = Append(history, Log("fail", "compress"))
    /\ UNCHANGED <<args, processor, metadata, frame_files, all_frame_data, stats, ret,
                   stderr, exit_code>>

\* subprocess.run(["zstd", "-f", temp_file, "-o", output_path], check=True), then the
\* statistics; or zstd exits non-zero
RunZstd ==
    /\ pc = "zstd"
    /\ \/ /\ fs' = [fs EXCEPT !.output = Some([path |-> Val(Val(args).output),
                                               zstd_of |-> Val(fs.temp)])]
          /\ stats' = Some(CompressionStats(FrameSizes(all_frame_data)))
          /\ history' = Append(history, Log("tool", "zstd"))
          /\ UNCHANGED exc
       \/ /\ exc' = Some("CalledProcessError")
          /\ history' = history \o <<Log("tool", "zstd"), Log("fail", "compress")>>
          /\ UNCHANGED <<fs, stats>>
    /\ pc' = "finally"
    /\ UNCHANGED <<args, processor, metadata, frame_files, all_frame_data, ret, stderr,
                   exit_code>>

\* the finally block, then the return to main or the exception going on
Finally ==
    /\ pc = "finally"
    /\ fs' = FinallyCleanup(fs, exc # None)
    /\ pc' = IF exc = None THEN "report" ELSE "except"
    /\ history' = IF exc = None THEN Append(history, Log("ok", "compress")) ELSE history
    /\ UNCHANGED <<args, processor, metadata, frame_files, all_frame_data, stats, ret, exc,
                   stderr, exit_code>>

\* playback_cmd = generate_playback_command(...), the summary is printed, main returns
Report ==
    /\ pc = "report"
    /\ ret' = Some([raised |-> None,
                    value |-> Some(generate_playback_command(
                                 Val(Val(args).output), Val(metadata).fps,
                                 Val(stats).avg_frame_size))])
    /\ exit_code' = Some(0)
    /\ pc' = "exit"
    /\ UNCHANGED <<args, processor, metadata, fs, frame_files, all_frame_data, stats, exc,
                   stderr, history>>

\* main's handler
Except ==
    /\ pc = "except"
    /\ LET r == main_except(Val(exc), stderr)
       IN  /\ stderr' = r.stderr
           /\ exit_code' = r.exit_code
    /\ pc' = "exit"
    /\ UNCHANGED <<args, processor, metadata, fs, frame_files, all_frame_data, stats, ret,
                   exc, history>>

Next ==
    \/ InputMissing \/ DefaultOutputRaises \/ InputOk
    \/ Probe \/ CalcDims \/ EnterTempDir
    \/ Extract \/ ExtractFails \/ Render \/ RenderFails \/ LeaveTempDir \/ UnwindTempDir
    \/ OpenTemp \/ WriteStream \/ RunZstd \/ Finally
    \/ Report \/ Except

Spec == Init /\ [][Next]_vars

(***************************************************************************)
(* Properties of one run of main() (Spec).                                 *)
(***************************************************************************)
RECURSIVE Flatten(_)
Flatten(l) == IF l = <<>> THEN <<>> ELSE l[1] \o Flatten(Tail(l))

\* rows newlines, the cursor-hide code, the frame blocks in order, the cursor-show code
FramedStream ==
    Repeat(<<Newline>>, Val(processor.terminal_height)) \o HideCursor
        \o Flatten(all_frame_data) \o ShowCursor

\* C3: the uncompressed stream, as it stands when the writes are done and as zstd compresses
\* it, is exactly rows newlines, the hide code, the N >= 0 frame blocks unmodified and in
\* order, and the show code
C3_StreamFraming ==
    /\ pc = "zstd" => fs.temp = Some(FramedStream)
    /\ fs.output # None => Val(fs.output).zstd_of = FramedStream

\* C3 witness: an artifact made from two different frame blocks
C3_Witness ==
    /\ fs.output # None
    /\ Len(all_frame_data) = 2
    /\ all_frame_data[1] # all_frame_data[2]

\* C4: once compress_frames_to_file has finished, by returning or by raising, the file
\* <output>.ansi.tmp does not exist
C4_TempFileRemoved == pc \in {"report", "except", "exit"} => fs.temp = None

\* C4 witness: the run has ended after zstd failed on a written stream, and the file is gone
C4_Witness ==
    /\ pc = "exit"
    /\ Logged("tool", "zstd") /\ Logged("fail", "compress")
    /\ fs.temp = None

Stages == {"input", "probe", "dims", "extract", "render", "compress"}

\* C5: a run ends with status 0 or 1; 0 exactly when no step failed and every stage was
\* completed; 1, with a message on stderr, when the input is missing or a step raised
C5_ExitCodes ==
    /\ (pc = "exit") <=> (exit_code # None)
    /\ pc = "exit" =>
          /\ exit_code \in {Some(0), Some(1)}
          /\ exit_code = Some(0) <=> (~Failed /\ \A st \in Stages : Logged("ok", st))
          /\ Failed => (exit_code = Some(1) /\ stderr # <<>>)

\* C5 witness: ffmpeg failed and the run ended with status 1 and a message
C5_Witness ==
    /\ pc = "exit"
    /\ Logged("fail", "extract")
    /\ exit_code = Some(1)
    /\ Len(stderr) = 1

\* C9: the scratch directory exists only from its creation, after the probe and the
\* dimension calculation succeeded, to the end of the frame loop: it is gone when the
\* encoder starts and when the run ends, whether the loop finished or raised
C9_ScratchOnlyWhileProcessing ==
    /\ fs.scratch # None =>
          /\ pc \in {"extract", "render", "tempdir_exit"}
          /\ Logged("ok", "probe") /\ Logged("ok", "dims")
    /\ (Logged("stage", "compress") \/ pc \in {"compress", "except", "exit"}) =>
          fs.scratch = None

\* C9 witness: a frame failed to render, the run has ended and the directory is gone
C9_Witness ==
    /\ pc = "exit"
    /\ Logged("fail", "render")
    /\ frame_files # <<>>
    /\ fs.scratch = None

StageOrder == <<"input", "probe", "dims", "extract", "render", "compress">>
ToolOrder == <<"ffprobe", "ffmpeg", "zstd">>
Rank(order, name) == CHOOSE i \in 1..Len(order) : order[i] = name
IsStage(e) == e[1] = "stage"
IsTool(e) == e[1] = "tool"
\* each entry of the log is of a later stage (tool) than the entries before it
InOrder(log, order) ==
    \A i, j \in 1..Len(log) : i < j => Rank(order, log[i][2]) < Rank(order, log[j][2])
FailedBeforeCompression ==
    \E i \in 1..Len(history) :
        history[i][1] = "fail" /\ history[i][2] # "compress"

\* C10: stages start, and external tools run, at most once each and in pipeline order; once
\* a step has failed, no stage starts, no tool runs and no artifact is written; a run that
\* failed before the compression stage has no output artifact
C10_FailuresAreFatal ==
    /\ [](/\ InOrder(SelectSeq(history, IsStage), StageOrder)
          /\ InOrder(SelectSeq(history, IsTool), ToolOrder)
          /\ FailedBeforeCompression =>
                /\ fs.output = None
                /\ ~Logged("stage", "compress") /\ ~Logged("tool", "zstd"))
    /\ [][Failed => (history' = history /\ fs'.output = fs.output
                     /\ pc' \in {"except", "exit"})]_vars

\* C10 witness: ffmpeg failed; the run ended with zstd never run and no artifact
C10_Witness ==
    /\ pc = "exit"
    /\ Logged("fail", "extract")
    /\ SelectSeq(history, IsTool) = <<Log("tool", "ffprobe"), Log("tool", "ffmpeg")>>
    /\ fs.output = None
====
